---------------------------- MODULE Spec2Model ----------------------------
(***************************************************************************)
(* cargo-prefetch-dependencies (src/src/main.rs).                          *)
(*                                                                         *)
(* run() reads every manifest named on the command line, merges the        *)
(* (name, version) pairs of their [dependencies] and [dev-dependencies]    *)
(* tables into one HashSet and hands the set to make_project, which writes *)
(* Cargo.toml, creates src/ and writes an empty src/lib.rs.                *)
(*                                                                         *)
(* Text is modelled as a sequence of one-character strings, so that what   *)
(* format! writes and what the TOML parser reads are the same characters.  *)
(***************************************************************************)
EXTENDS Integers, Sequences, FiniteSets, TLC

(***************************************************************************)
(* Characters and strings                                                  *)
(***************************************************************************)

\* The characters the model uses, in ascending byte order (String's Ord).
Alphabet ==
    << "\n", " ", "\"", "*", ",", "-", ".", "/",
       "0", "1", "2", "3", "4", "5", "6", "7", "8", "9",
       "<", "=", ">", "[", "]", "^", "_",
       "a", "b", "c", "d", "e", "f", "g", "h", "i", "j", "k", "l", "m",
       "n", "o", "p", "q", "r", "s", "t", "u", "v", "w", "x", "y", "z",
       "{", "}", "~" >>

Chars == { Alphabet[i] : i \in 1..Len(Alphabet) }

\* The rank of a character in byte order.
CodeOf == [ c \in Chars |-> CHOOSE i \in 1..Len(Alphabet) : Alphabet[i] = c ]

Digits == { "0", "1", "2", "3", "4", "5", "6", "7", "8", "9" }

Letters == { "a", "b", "c", "d", "e", "f", "g", "h", "i", "j", "k", "l", "m",
             "n", "o", "p", "q", "r", "s", "t", "u", "v", "w", "x", "y", "z" }

\* The characters of a TOML bare key.
BareKeyChars == Letters \cup Digits \cup { "-", "_" }

RECURSIVE StrLess(_, _)
\* s < t in the lexicographic byte order of Rust's String.
StrLess(s, t) ==
    IF t = << >> THEN FALSE
    ELSE IF s = << >> THEN TRUE
    ELSE IF s[1] # t[1] THEN CodeOf[s[1]] < CodeOf[t[1]]
    ELSE StrLess(Tail(s), Tail(t))

RECURSIVE Spaces(_)
Spaces(n) == IF n = 0 THEN << >> ELSE << " " >> \o Spaces(n - 1)

RECURSIVE ConcatFrom(_, _)
ConcatFrom(ss, i) == IF i > Len(ss) THEN << >> ELSE ss[i] \o ConcatFrom(ss, i + 1)

\* The concatenation of a sequence of strings (Vec<String>::join("")).
Concat(ss) == ConcatFrom(ss, 1)

Range(s) == { s[i] : i \in 1..Len(s) }

S_dependencies == << "d", "e", "p", "e", "n", "d", "e", "n", "c", "i", "e", "s" >>

S_dev_dependencies == << "d", "e", "v", "-" >> \o S_dependencies

S_version == << "v", "e", "r", "s", "i", "o", "n" >>

S_package == << "p", "a", "c", "k", "a", "g", "e" >>

S_name == << "n", "a", "m", "e" >>

S_path == << "p", "a", "t", "h" >>


(***************************************************************************)
(* toml::Value and toml::map::Map                                          *)
(*                                                                         *)
(* A Map is the sequence of its <<key, value>> pairs in iteration order.   *)
(* main.rs iterates tables with Map::iter (line 119); the toml crate's Map *)
(* is a BTreeMap<String, Value> unless its preserve_order feature is       *)
(* selected, so iteration is in ascending key order.                       *)
(***************************************************************************)

VString(s) == [ kind |-> "String", s |-> s, t |-> << >> ]

VInteger(s) == [ kind |-> "Integer", s |-> s, t |-> << >> ]

VArray == [ kind |-> "Array", s |-> << >>, t |-> << >> ]

VTable(m) == [ kind |-> "Table", s |-> << >>, t |-> m ]

MapKeys(m) == { m[i][1] : i \in 1..Len(m) }

\* Map::get: Some(value) as <<value>>, None as << >>.
MapGet(m, k) ==
    LET hits == { i \in 1..Len(m) : m[i][1] = k }
    IN  IF hits = {} THEN << >> ELSE << m[CHOOSE i \in hits : TRUE][2] >>

\* Variant of MapInsert: a map that keeps insertion order.
MapInsertAtEnd(m, k, v) == Append(m, << k, v >>)

\* Insertion of a new key into the BTreeMap: the pair goes after every
\* smaller key.
MapInsert(m, k, v) ==
    LET n == Cardinality({ i \in 1..Len(m) : StrLess(m[i][1], k) })
    IN  SubSeq(m, 1, n) \o << <<k, v>> >> \o SubSeq(m, n + 1, Len(m))

\* Replacement of the value of a key the map holds.
MapSet(m, k, v) == [ i \in 1..Len(m) |-> IF m[i][1] = k THEN <<k, v>> ELSE m[i] ]

(***************************************************************************)
(* The TOML parser behind `manifest_content.parse()` (line 152), for the   *)
(* part of TOML the manifests here use: blank lines, [table] headers with  *)
(* a bare key, and `key = value` lines whose key is bare or a basic string *)
(* and whose value is a basic string, an integer, an empty array or an     *)
(* inline table. A key defined twice in one table is a parse error.        *)
(***************************************************************************)

Fail == [ ok |-> FALSE, val |-> << >>, next |-> 0 ]

Parsed(v, n) == [ ok |-> TRUE, val |-> v, next |-> n ]

RECURSIVE SkipWs(_, _)
\* The first position at or after i that holds no space.
SkipWs(s, i) == IF i <= Len(s) /\ s[i] = " " THEN SkipWs(s, i + 1) ELSE i

RECURSIVE ScanWhile(_, _, _)
\* The first position at or after i whose character is not in cs.
ScanWhile(s, i, cs) ==
    IF i <= Len(s) /\ s[i] \in cs THEN ScanWhile(s, i + 1, cs) ELSE i

\* The positions at which the lines of a text start.
LineStarts(s) == { 1 } \cup { i + 1 : i \in { j \in 1..Len(s) : s[j] = "\n" } }

\* The lines of a text, without their line ends.
SplitLines(s) ==
    [ k \in 1..Cardinality(LineStarts(s)) |->
        LET b == CHOOSE x \in LineStarts(s) :
                    Cardinality({ y \in LineStarts(s) : y < x }) = k - 1
        IN  SubSeq(s, b, ScanWhile(s, b, Chars \ { "\n" }) - 1) ]

\* The basic string "..." that starts at i and ends at the quote at j; the
\* model's texts hold no escapes.
BasicStringTo(s, i, j) ==
    IF j > Len(s) THEN Fail ELSE Parsed(SubSeq(s, i + 1, j - 1), j + 1)

ParseBasicString(s, i) ==
    IF i > Len(s) \/ s[i] # "\"" THEN Fail
    ELSE BasicStringTo(s, i, ScanWhile(s, i + 1, Chars \ { "\"" }))

\* The bare key from i to before j.
BareKeyTo(s, i, j) == IF j = i THEN Fail ELSE Parsed(SubSeq(s, i, j - 1), j)

\* A key starting at i: a basic string or a non-empty bare key.
ParseKey(s, i) ==
    IF i > Len(s) THEN Fail
    ELSE IF s[i] = "\"" THEN ParseBasicString(s, i)
    ELSE BareKeyTo(s, i, ScanWhile(s, i, BareKeyChars))

NoKeyValue == [ ok |-> FALSE, key |-> << >>, val |-> VArray, next |-> 0 ]

RECURSIVE ParseValue(_, _)
RECURSIVE ParseInlineEntries(_, _, _)

KeyValueWith(key, v) ==
    IF v.ok THEN [ ok |-> TRUE, key |-> key, val |-> v.val, next |-> v.next ]
    ELSE NoKeyValue

KeyValueAfterKey(s, key, eq) ==
    IF eq > Len(s) \/ s[eq] # "=" THEN NoKeyValue
    ELSE KeyValueWith(key, ParseValue(s, SkipWs(s, eq + 1)))

KeyValueFrom(s, k) ==
    IF k.ok THEN KeyValueAfterKey(s, k.val, SkipWs(s, k.next)) ELSE NoKeyValue

\* `key = value` starting at i.
ParseKeyValue(s, i) == KeyValueFrom(s, ParseKey(s, i))

StringValue(r) == IF r.ok THEN Parsed(VString(r.val), r.next) ELSE Fail

IntegerTo(s, i, j) == Parsed(VInteger(SubSeq(s, i, j - 1)), j)

\* An array whose first character after "[" is at j: the model's arrays
\* are empty.
ArrayFrom(s, j) == IF j <= Len(s) /\ s[j] = "]" THEN Parsed(VArray, j + 1) ELSE Fail

\* An inline table whose first character after "{" is at j.
InlineTableFrom(s, j) ==
    IF j <= Len(s) /\ s[j] = "}" THEN Parsed(VTable(<< >>), j + 1)
    ELSE ParseInlineEntries(s, j, << >>)

\* A value starting at i.
ParseValue(s, i) ==
    IF i > Len(s) THEN Fail
    ELSE IF s[i] = "\"" THEN StringValue(ParseBasicString(s, i))
    ELSE IF s[i] \in Digits THEN IntegerTo(s, i, ScanWhile(s, i, Digits))
    ELSE IF s[i] = "[" THEN ArrayFrom(s, SkipWs(s, i + 1))
    ELSE IF s[i] = "{" THEN InlineTableFrom(s, SkipWs(s, i + 1))
    ELSE Fail

\* What follows an entry of an inline table, at e: its end or a next entry.
InlineAfterEntry(s, e, acc) ==
    IF e > Len(s) THEN Fail
    ELSE IF s[e] = "}" THEN Parsed(VTable(acc), e + 1)
    ELSE IF s[e] = "," THEN ParseInlineEntries(s, SkipWs(s, e + 1), acc)
    ELSE Fail

InlineWithEntry(s, kv, acc) ==
    IF ~kv.ok \/ kv.key \in MapKeys(acc) THEN Fail
    ELSE InlineAfterEntry(s, SkipWs(s, kv.next), MapInsert(acc, kv.key, kv.val))

\* The entries `key = value, ...` of an inline table from i to its "}",
\* added to the entries acc read so far.
ParseInlineEntries(s, i, acc) == InlineWithEntry(s, ParseKeyValue(s, i), acc)

Line(kind, key, val) == [ kind |-> kind, key |-> key, val |-> val ]

ErrorLine == Line("error", << >>, VArray)

HeaderTo(s, i, j) ==
    IF j > i + 1 /\ j <= Len(s) /\ s[j] = "]" /\ SkipWs(s, j + 1) > Len(s)
    THEN Line("header", SubSeq(s, i + 1, j - 1), VArray)
    ELSE ErrorLine

KeyValueLine(s, kv) ==
    IF kv.ok /\ SkipWs(s, kv.next) > Len(s) THEN Line("kv", kv.key, kv.val)
    ELSE ErrorLine

LineFrom(s, i) ==
    IF i > Len(s) THEN Line("blank", << >>, VArray)
    ELSE IF s[i] = "[" THEN HeaderTo(s, i, ScanWhile(s, i + 1, BareKeyChars))
    ELSE KeyValueLine(s, ParseKeyValue(s, i))

\* One line of a document: blank, a [table] header, key = value, or an error.
ParseLine(s) == LineFrom(s, SkipWs(s, 1))

\* The table the lines after header cur go to: the root before any header
\* (cur = << >>), the table [name] after it (cur = <<name>>).
CurrentTable(root, cur) ==
    IF cur = << >> THEN root ELSE MapGet(root, cur[1])[1].t

\* Whether line l defines a table or a key that is defined already.
Redefines(root, cur, l) ==
    \/ l.kind = "header" /\ l.key \in MapKeys(root)
    \/ l.kind = "kv" /\ l.key \in MapKeys(CurrentTable(root, cur))

\* The root table with line l read into it.
RootWith(root, cur, l) ==
    IF l.kind = "header" THEN MapInsert(root, l.key, VTable(<< >>))
    ELSE IF l.kind # "kv" THEN root
    ELSE IF cur = << >> THEN MapInsert(root, l.key, l.val)
    ELSE MapSet(root, cur[1],
                VTable(MapInsert(CurrentTable(root, cur), l.key, l.val)))

RECURSIVE ParseLines(_, _, _, _)

ReadLine(lines, i, root, cur, l) ==
    IF l.kind = "error" \/ Redefines(root, cur, l)
    THEN [ ok |-> FALSE, table |-> << >> ]
    ELSE ParseLines(lines, i + 1, RootWith(root, cur, l),
                    IF l.kind = "header" THEN << l.key >> ELSE cur)

\* The document's lines from the i-th on, read into the root table.
ParseLines(lines, i, root, cur) ==
    IF i > Len(lines) THEN [ ok |-> TRUE, table |-> root ]
    ELSE ReadLine(lines, i, root, cur, ParseLine(lines[i]))

\* str::parse::<Table>(): the root table of a text, or a parse error.
ParseToml(text) == ParseLines(SplitLines(text), 1, << >>, << >>)

(***************************************************************************)
(* semver::VersionReq::parse (line 128), for requirements of one           *)
(* comparator: an optional operator and one to three dot-separated parts,  *)
(* each a number or a wildcard.                                            *)
(***************************************************************************)

\* The length of the operator a requirement starts with (0: none).
OpLen(s) ==
    IF Len(s) >= 2 /\ s[1] \in { "<", ">" } /\ s[2] = "=" THEN 2
    ELSE IF Len(s) >= 1 /\ s[1] \in { "^", "~", "=", "<", ">" } THEN 1
    ELSE 0

RECURSIVE VersionParts(_, _, _)

\* A part runs from i to before j: the requirement ends there, or a "." and
\* at most n - 1 more parts follow.
VersionPartTo(s, i, j, n) ==
    IF n = 0 \/ j = i THEN FALSE
    ELSE IF j > Len(s) THEN TRUE
    ELSE s[j] = "." /\ VersionParts(s, j + 1, n - 1)

\* Whether s from i on is n dot-separated parts at most, and one at least.
VersionParts(s, i, n) ==
    IF i <= Len(s) /\ s[i] \in { "*", "x" } THEN VersionPartTo(s, i, i + 1, n)
    ELSE VersionPartTo(s, i, ScanWhile(s, i, Digits), n)

\* VersionReq::parse(s).is_ok()
VersionReqParse(s) == VersionParts(s, OpLen(s) + 1, 3)


(***************************************************************************)
(* The manifests on disk                                                   *)
(*                                                                         *)
(* Each input file is given by what it declares; FileText is the text of   *)
(* the file. Names, versions and value shapes:                             *)
(*   string   N = "V"                                                      *)
(*   table    N = { version = "V", path = "../a" }                         *)
(*   nover    N = { path = "../a" }                                        *)
(*   intver   N = { version = 1 }                                          *)
(*   array    N = []                                                       *)
(***************************************************************************)

N_a == << "a" >>

N_b == << "b" >>

V_10 == << "1", ".", "0" >>

V_c2 == << "^", "2" >>

V_bad == << ".", ".", "/", "a" >>

Quoted(s) == << "\"" >> \o s \o << "\"" >>

Entry(key, form, version) == [ key |-> key, form |-> form, version |-> version ]

\* The text of a declared value.
ValueText(e) ==
    LET path == S_path \o << " ", "=", " " >> \o Quoted(V_bad)
        ver(v) == S_version \o << " ", "=", " " >> \o v
    IN  CASE e.form = "string" -> Quoted(e.version)
          [] e.form = "table"  ->
                << "{", " " >> \o ver(Quoted(e.version)) \o << ",", " " >> \o path
                \o << " ", "}" >>
          [] e.form = "nover"  -> << "{", " " >> \o path \o << " ", "}" >>
          [] e.form = "intver" -> << "{", " " >> \o ver(<< "1" >>) \o << " ", "}" >>
          [] e.form = "array"  -> << "[", "]" >>

RECURSIVE EntriesText(_)
\* One `key = value` line per declared entry, in declaration order.
EntriesText(es) ==
    IF es = << >> THEN << >>
    ELSE Head(es).key \o << " ", "=", " " >> \o ValueText(Head(es)) \o << "\n" >>
         \o EntriesText(Tail(es))

\* A [name] table with its entries; sec is << >> (no such table) or <<entries>>.
SectionText(name, sec) ==
    IF sec = << >> THEN << >>
    ELSE << "[" >> \o name \o << "]", "\n" >> \o EntriesText(sec[1]) \o << "\n" >>

Manifest(pkg, deps, dev) ==
    [ readable |-> TRUE, wellformed |-> TRUE, package |-> pkg,
      dependencies |-> deps, dev_dependencies |-> dev ]

\* What each manifest path holds.
Declared ==
    [ m1  |-> Manifest(TRUE, << << Entry(N_a, "string", V_10) >> >>, << >>),
      m2  |-> Manifest(FALSE, << >>, << << Entry(N_a, "string", V_10) >> >>),
      m3  |-> Manifest(FALSE, << << Entry(N_a, "string", V_c2) >> >>, << >>),
      m4  |-> Manifest(TRUE, << << Entry(N_b, "string", V_c2),
                                   Entry(N_a, "table", V_10) >> >>, << << >> >>),
      m5  |-> Manifest(FALSE, << << Entry(N_a, "string", V_bad) >> >>, << >>),
      m6  |-> Manifest(FALSE, << << Entry(N_b, "table", V_bad) >> >>,
                              << << Entry(N_a, "string", V_c2) >> >>),
      m7  |-> Manifest(FALSE, << << Entry(N_a, "nover", << >>) >> >>, << >>),
      m8  |-> Manifest(FALSE, << << Entry(N_a, "string", V_10),
                                    Entry(N_b, "array", << >>) >> >>, << >>),
      m9  |-> Manifest(FALSE, << >>, << << Entry(N_b, "string", V_10),
                                           Entry(N_a, "intver", << >>) >> >>),
      m10 |-> [ Manifest(FALSE, << >>, << >>) EXCEPT !.readable = FALSE ],
      m11 |-> [ Manifest(FALSE, << << Entry(N_a, "string", V_10),
                                      Entry(N_a, "string", V_c2) >> >>, << >>)
                EXCEPT !.wellformed = FALSE ],
      m12 |-> Manifest(TRUE, << >>, << >>),
      m13 |-> Manifest(FALSE, << << Entry(N_a, "string", V_10) >> >>,
                              << << Entry(N_a, "string", V_c2) >> >>) ]

ManifestPaths == DOMAIN Declared

\* The text of a declared manifest.
FileText(d) ==
    (IF d.package
     THEN << "[" >> \o S_package \o << "]", "\n" >>
          \o S_name \o << " ", "=", " " >> \o Quoted(S_package) \o << "\n", "\n" >>
     ELSE << >>)
    \o SectionText(S_dependencies, d.dependencies)
    \o SectionText(S_dev_dependencies, d.dev_dependencies)

\* The output directory's paths (line 74's output path joined as in lines
\* 85, 99 and 100).
OutCargoToml == "out/Cargo.toml"

OutSrc == "out/src"

OutLibRs == "out/src/lib.rs"

OutPaths == { OutCargoToml, OutSrc, OutLibRs }

Absent == [ kind |-> "absent", content |-> << >> ]

File(text) == [ kind |-> "file", content |-> text ]

Dir == [ kind |-> "dir", content |-> << >> ]

\* The manifests as files: the run only reads them.
ManifestFiles ==
    [ p \in ManifestPaths |->
        IF ~Declared[p].readable THEN [ kind |-> "unreadable", content |-> << >> ]
        ELSE File(FileText(Declared[p])) ]

\* The file system, given what the output directory holds.
FileSystem(outdir) ==
    [ p \in ManifestPaths \cup OutPaths |->
        IF p \in OutPaths THEN outdir[p] ELSE ManifestFiles[p] ]

(***************************************************************************)
(* The extractor: transform_dependencies and manifest_dependencies         *)
(***************************************************************************)

Package(name, version) == [ name |-> name, version |-> version ]

\* Variant of EntryVersion: a table gives the string of its first key
\* instead of that of its "version" key.
EntryVersionFirstKey(val) ==
    IF val.kind = "String" THEN << val.s >>
    ELSE IF val.kind # "Table" \/ val.t = << >> THEN << >>
    ELSE IF val.t[1][2].kind # "String" THEN << >> ELSE << val.t[1][2].s >>

\* Lines 120-126: the version of an entry's value as <<string>>, or << >>
\* where one of the unwraps panics.
EntryVersion(val) ==
    IF val.kind = "String" THEN << val.s >>
    ELSE IF val.kind # "Table" THEN << >>
    ELSE LET v == MapGet(val.t, S_version)
         IN  IF v = << >> \/ v[1].kind # "String" THEN << >> ELSE << v[1].s >>

RECURSIVE transform_loop(_, _, _)

\* Variant of transform_entry: no check of the version requirement.
transform_entry_unchecked(deps, i, result, version) ==
    IF version = << >> THEN [ panic |-> TRUE, result |-> << >> ]
    ELSE transform_loop(deps, i + 1, Append(result, Package(deps[i][1], version[1])))

\* Variant of transform_entry: an entry without a version string is skipped.
transform_entry_skipping(deps, i, result, version) ==
    IF version = << >> THEN transform_loop(deps, i + 1, result)
    ELSE IF VersionReqParse(version[1])
    THEN transform_loop(deps, i + 1, Append(result, Package(deps[i][1], version[1])))
    ELSE transform_loop(deps, i + 1, result)

\* Lines 126-135 for the i-th entry of deps, whose version is <<string>>,
\* or << >> where an unwrap of lines 123-126 panics.
transform_entry(deps, i, result, version) ==
    IF version = << >> THEN [ panic |-> TRUE, result |-> << >> ]
    ELSE IF VersionReqParse(version[1])
    THEN transform_loop(deps, i + 1, Append(result, Package(deps[i][1], version[1])))
    ELSE transform_loop(deps, i + 1, result)

\* Lines 119-136: the loop from the i-th entry of deps on, with the result
\* vector built so far.
transform_loop(deps, i, result) ==
    IF i > Len(deps) THEN [ panic |-> FALSE, result |-> result ]
    ELSE transform_entry(deps, i, result, EntryVersion(deps[i][2]))

\* Lines 116-139.
transform_dependencies(deps) == transform_loop(deps, 1, << >>)

Panicked == [ panic |-> TRUE, dependencies |-> << >>, dev_dependencies |-> << >> ]

\* Lines 153-159 and 161-167: the list of the root table's entry t (Some as
\* <<value>>, None as << >>), an empty list when the table has none.
table_dependencies(t) ==
    IF t = << >> THEN [ panic |-> FALSE, result |-> << >> ]
    ELSE IF t[1].kind # "Table" THEN [ panic |-> TRUE, result |-> << >> ]
    ELSE transform_dependencies(t[1].t)

\* Lines 169-172, unless one of the two lists panicked.
package_dependencies(deps, dev) ==
    IF deps.panic \/ dev.panic THEN Panicked
    ELSE [ panic |-> FALSE, dependencies |-> deps.result,
           dev_dependencies |-> dev.result ]

\* Lines 152-172 on the parsed document.
document_dependencies(data) ==
    IF ~data.ok THEN Panicked
    ELSE package_dependencies(
             table_dependencies(MapGet(data.table, S_dependencies)),
             table_dependencies(MapGet(data.table, S_dev_dependencies)))

\* Lines 142-173, on file system fsys.
manifest_dependencies(fsys, manifest) ==
    IF fsys[manifest].kind # "file" THEN Panicked
    ELSE document_dependencies(ParseToml(fsys[manifest].content))

(***************************************************************************)
(* The materializer: make_project                                          *)
(***************************************************************************)

\* Line 10.
TEMP_PROJ_NAME ==
    << "t", "e", "m", "p", "_", "p", "r", "e", "f", "e", "t", "c", "h", "_",
       "p", "r", "o", "j", "e", "c", "t" >>

\* The indentation of the raw string's lines (lines 88-94).
IndentWidth == 12

Indent == Spaces(IndentWidth)

\* Variant of DepLine: the name is written as a bare key.
DepLineBareName(crate) ==
    crate[1] \o << " ", "=", " ", "\"" >> \o crate[2] \o << "\"", "\n" >>

\* Line 81: format!("\"{}\" = \"{}\"\n", name, version)
DepLine(crate) ==
    << "\"" >> \o crate[1] \o << "\"", " ", "=", " ", "\"" >> \o crate[2]
    \o << "\"", "\n" >>

\* Lines 86-97: the raw string with TEMP_PROJ_NAME and deps.join("") in it.
ManifestText(deps) ==
    << "\n" >>
    \o Indent \o << "[" >> \o S_package \o << "]", "\n" >>
    \o Indent \o S_name \o << " ", "=", " ", "\"" >> \o TEMP_PROJ_NAME \o << "\"", "\n" >>
    \o Indent \o S_version \o << " ", "=", " ", "\"", "0", ".", "0", ".", "0", "\"", "\n" >>
    \o << "\n" >>
    \o Indent \o << "[" >> \o S_dependencies \o << "]", "\n" >>
    \o Indent \o Concat(deps) \o << "\n" >>
    \o Indent

\* The orders in which HashSet::iter may yield the elements of a set.
IterOrders(set) ==
    { f \in [ 1..Cardinality(set) -> set ] : Range(f) = set }

\* Lines 79-82: the Vec of rendered lines, for one iteration order.
RenderDeps(order) == [ i \in 1..Len(order) |-> DepLine(order[i]) ]

(***************************************************************************)
(* run()                                                                   *)
(***************************************************************************)

\* The most manifest arguments of a run the model explores.
MaxManifests == 2

VARIABLES
    manifests,   \* line 58: the manifest paths of the command line
    out,         \* the output directory: path -> absent, file or dir
    pc,          \* where run() is: "loop", "create_dir", "write_lib", "exit"
    next,        \* the position of the loop of line 63 in manifests
    crates,      \* line 61: the CrateSet
    status,      \* "running", then "ok", "error" (run returned Err) or "panic"
    reads,       \* history: the arguments of the manifest_dependencies calls
    extracted,   \* history: the PackageDependencies those calls returned
    made,        \* history: the crate sets make_project was called with
    steps        \* history: make_project's file system calls, <<call, ok>>

vars == << manifests, out, pc, next, crates, status, reads, extracted, made, steps >>

Init ==
    /\ manifests \in UNION { [ 1..n -> ManifestPaths ] : n \in 1..MaxManifests }
    /\ out = [ p \in OutPaths |-> Absent ]
    /\ pc = "loop"
    /\ next = 1
    /\ crates = {}
    /\ status = "running"
    /\ reads = << >>
    /\ extracted = << >>
    /\ made = << >>
    /\ steps = << >>

\* Variant of Merge: without the loop of lines 69-71.
MergeDependenciesOnly(set, result) ==
    set \cup { << result.dependencies[i].name, result.dependencies[i].version >> :
                 i \in 1..Len(result.dependencies) }

\* Variant of Merge: the set is built anew for each manifest.
MergeReplacing(set, result) ==
    { << result.dependencies[i].name, result.dependencies[i].version >> :
        i \in 1..Len(result.dependencies) }
    \cup { << result.dev_dependencies[i].name, result.dev_dependencies[i].version >> :
             i \in 1..Len(result.dev_dependencies) }

\* Lines 66-71: the crate set with a manifest's two lists inserted.
Merge(set, result) ==
    set \cup { << result.dependencies[i].name, result.dependencies[i].version >> :
                 i \in 1..Len(result.dependencies) }
        \cup { << result.dev_dependencies[i].name, result.dev_dependencies[i].version >> :
                 i \in 1..Len(result.dev_dependencies) }

\* Variant of LoopBody: a manifest whose extraction fails is skipped.
LoopBodySkippingFailed(result) ==
    /\ crates' = IF result.panic THEN crates ELSE Merge(crates, result)
    /\ extracted' = IF result.panic THEN extracted ELSE Append(extracted, result)
    /\ next' = next + 1
    /\ UNCHANGED << pc, status >>

\* Lines 64-71 with the result of manifest_dependencies: the unwrap of line
\* 64 and the unwraps inside manifest_dependencies panic, which ends the
\* process.
LoopBody(result) ==
    IF result.panic
    THEN /\ pc' = "exit"
         /\ status' = "panic"
         /\ UNCHANGED << next, crates, extracted >>
    ELSE /\ crates' = Merge(crates, result)
         /\ extracted' = Append(extracted, result)
         /\ next' = next + 1
         /\ UNCHANGED << pc, status >>

\* Lines 63-72: one iteration of the loop.
LoopStep ==
    /\ pc = "loop"
    /\ next <= Len(manifests)
    /\ reads' = Append(reads, manifests[next])
    /\ LoopBody(manifest_dependencies(FileSystem(out), manifests[next]))
    /\ UNCHANGED << manifests, out, made, steps >>

\* What a failed fs::write can leave at path p: nothing new, or the file
\* created and left empty.
FailedWrite(p) == { out, [ out EXCEPT ![p] = File(<< >>) ] }

\* Variant of IoFailure: what was written is removed again.
IoFailureRollingBack(call, left) ==
    /\ steps' = Append(steps, << call, FALSE >>)
    /\ pc' = "exit"
    /\ status' = "error"
    /\ out' = [ p \in OutPaths |-> Absent ]

\* A file system call of make_project that fails and leaves the output
\* directory as `left`: `?` returns the error.
IoFailure(call, left) ==
    /\ steps' = Append(steps, << call, FALSE >>)
    /\ pc' = "exit"
    /\ status' = "error"
    /\ out' = left

\* Lines 74 and 78-98: the loop is over, make_project is called with the
\* crate set, renders it and writes Cargo.toml.
WriteManifest ==
    /\ pc = "loop"
    /\ next > Len(manifests)
    /\ made' = Append(made, crates)
    /\ \E order \in IterOrders(crates), ok \in BOOLEAN :
          IF ok
          THEN /\ out' = [ out EXCEPT ![OutCargoToml] = File(ManifestText(RenderDeps(order))) ]
               /\ steps' = Append(steps, << "write_manifest", TRUE >>)
               /\ pc' = "create_dir"
               /\ UNCHANGED status
          ELSE \E left \in FailedWrite(OutCargoToml) : IoFailure("write_manifest", left)
    /\ UNCHANGED << manifests, next, crates, reads, extracted >>

\* Line 99.
CreateDir ==
    /\ pc = "create_dir"
    /\ \E ok \in BOOLEAN :
          IF ok
          THEN /\ out' = [ out EXCEPT ![OutSrc] = Dir ]
               /\ steps' = Append(steps, << "create_dir", TRUE >>)
               /\ pc' = "write_lib"
               /\ UNCHANGED status
          ELSE IoFailure("create_dir", out)
    /\ UNCHANGED << manifests, next, crates, reads, extracted, made >>

\* Lines 100-101.
WriteLib ==
    /\ pc = "write_lib"
    /\ \E ok \in BOOLEAN :
          IF ok
          THEN /\ out' = [ out EXCEPT ![OutLibRs] = File(<< >>) ]
               /\ steps' = Append(steps, << "write_lib", TRUE >>)
               /\ pc' = "exit"
               /\ status' = "ok"
          ELSE \E left \in FailedWrite(OutLibRs) : IoFailure("write_lib", left)
    /\ UNCHANGED << manifests, next, crates, reads, extracted, made >>

Next == LoopStep \/ WriteManifest \/ CreateDir \/ WriteLib

Spec == Init /\ [][Next]_vars


(***************************************************************************)
(* What the manifests declare, for the statements below                    *)
(***************************************************************************)

\* The entries a manifest declares in a table (none without the table).
DeclaredEntries(sec) == IF sec = << >> THEN << >> ELSE sec[1]

\* An entry that gives a version string: as a plain string, or as the
\* `version` key of a table.
HasVersionString(e) == e.form \in { "string", "table" }

\* The declared entries that give a valid version requirement, in
\* declaration order, as packages.
DeclaredSurvivors(sec) ==
    LET kept == SelectSeq(DeclaredEntries(sec),
                          LAMBDA e : HasVersionString(e) /\ VersionReqParse(e.version))
    IN  [ i \in 1..Len(kept) |-> Package(kept[i].key, kept[i].version) ]

\* The declared entries that give a version string the grammar rejects.
DeclaredInvalid(sec) ==
    { e \in Range(DeclaredEntries(sec)) :
        HasVersionString(e) /\ ~VersionReqParse(e.version) }

\* The declared entries with no version string to resolve.
DeclaredUnresolvable(d) ==
    { e \in Range(DeclaredEntries(d.dependencies))
            \cup Range(DeclaredEntries(d.dev_dependencies)) : ~HasVersionString(e) }

\* A manifest whose extraction cannot succeed.
DeclaredFailing(d) ==
    ~d.readable \/ ~d.wellformed \/ DeclaredUnresolvable(d) # {}

PairsOf(list) == { << list[i].name, list[i].version >> : i \in 1..Len(list) }

\* The calls of manifest_dependencies that returned a result are the first
\* Len(extracted) ones.
Returned == 1..Len(extracted)

OutputWritten == { p \in OutPaths : out[p].kind # "absent" }

(***************************************************************************)
(* C1: after a run over manifests that all extract successfully, the       *)
(* aggregate crate set is exactly the union of the (name, version) pairs   *)
(* of the dependencies and dev_dependencies lists of every manifest,       *)
(* deduplicated on the whole pair.                                         *)
(***************************************************************************)
C1_AggregateIsUnion ==
    /\ crates = UNION { PairsOf(extracted[i].dependencies)
                          \cup PairsOf(extracted[i].dev_dependencies) : i \in Returned }
    /\ made # << >> =>
          /\ Len(extracted) = Len(manifests)
          /\ made[1] = UNION { PairsOf(DeclaredSurvivors(Declared[manifests[i]].dependencies))
                                 \cup PairsOf(DeclaredSurvivors(
                                          Declared[manifests[i]].dev_dependencies)) :
                               i \in 1..Len(manifests) }

\* A finished run in which one pair came from two lists and one name has
\* two versions.
C1_Witness ==
    /\ status = "ok"
    /\ Len(extracted) = 2
    /\ \E p \in crates, q \in crates : p[1] = q[1] /\ p[2] # q[2]
    /\ \E p \in crates :
          /\ p \in PairsOf(extracted[1].dependencies)
          /\ p \in PairsOf(extracted[2].dependencies)
                   \cup PairsOf(extracted[2].dev_dependencies)

(***************************************************************************)
(* C2: when the extraction of a manifest fails (unreadable, malformed, or  *)
(* an entry with no version string), the run ends at once without success: *)
(* no later manifest is read, make_project is not called and nothing has   *)
(* been written to the output directory.                                   *)
(***************************************************************************)
C2_Failed ==
    /\ \A i \in 1..Len(reads) :
          DeclaredFailing(Declared[reads[i]]) => status = "panic" /\ i = Len(reads)
    /\ status = "panic" =>
          /\ pc = "exit"
          /\ DeclaredFailing(Declared[reads[Len(reads)]])
          /\ reads = SubSeq(manifests, 1, Len(reads))
          /\ made = << >>
          /\ steps = << >>
          /\ OutputWritten = {}

C2_FailFast == [] C2_Failed /\ [][status # "panic"]_vars

\* The first of two manifests failed.
C2_Witness ==
    /\ status = "panic"
    /\ Len(manifests) = 2
    /\ Len(reads) = 1

(***************************************************************************)
(* C3: round trip: the manifest make_project wrote extracts without error  *)
(* and its "dependencies" list holds exactly the pairs of the crate set    *)
(* that was materialized.                                                  *)
(***************************************************************************)
C3_RoundTrip ==
    steps # << >> /\ steps[1][2] =>
        /\ ~manifest_dependencies(FileSystem(out), OutCargoToml).panic
        /\ PairsOf(manifest_dependencies(FileSystem(out), OutCargoToml).dependencies)
              = made[1]

(***************************************************************************)
(* C4: an entry whose version string fails the requirement grammar does    *)
(* not make extraction fail and is absent from the result; every version   *)
(* in a result and in the crate set parses; a run whose entries are all    *)
(* invalid calls make_project with the empty set and ends with success     *)
(* when the three writes succeed.                                          *)
(***************************************************************************)
OnlyInvalid(d) ==
    /\ ~DeclaredFailing(d)
    /\ DeclaredInvalid(d.dependencies) \cup DeclaredInvalid(d.dev_dependencies) # {}
    /\ DeclaredSurvivors(d.dependencies) = << >>
    /\ DeclaredSurvivors(d.dev_dependencies) = << >>

C4_InvalidDropped ==
    /\ \A i \in Returned :
          /\ \A e \in DeclaredInvalid(Declared[reads[i]].dependencies) :
                \A j \in 1..Len(extracted[i].dependencies) :
                    extracted[i].dependencies[j].name # e.key
          /\ \A e \in DeclaredInvalid(Declared[reads[i]].dev_dependencies) :
                \A j \in 1..Len(extracted[i].dev_dependencies) :
                    extracted[i].dev_dependencies[j].name # e.key
          /\ \A p \in PairsOf(extracted[i].dependencies)
                      \cup PairsOf(extracted[i].dev_dependencies) : VersionReqParse(p[2])
    /\ \A i \in 1..Len(reads) :
          ~DeclaredFailing(Declared[reads[i]]) => i \in Returned
    /\ \A p \in crates : VersionReqParse(p[2])
    /\ (\A i \in 1..Len(manifests) : OnlyInvalid(Declared[manifests[i]])) =>
          /\ status # "panic"
          /\ crates = {}
          /\ pc = "exit" /\ (\A k \in 1..Len(steps) : steps[k][2]) => status = "ok"

\* A run over manifests whose entries are all invalid has ended with success.
C4_Witness ==
    /\ \A i \in 1..Len(manifests) : OnlyInvalid(Declared[manifests[i]])
    /\ Len(extracted) = Len(manifests)
    /\ status = "ok"
    /\ made = << {} >>

(***************************************************************************)
(* C5: an entry whose value is a table without a "version" key, or is      *)
(* neither a string nor a table, makes the extraction of its manifest fail *)
(* instead of being skipped: the call returns no result, not even the      *)
(* entries before the offending one.                                       *)
(***************************************************************************)
C5_MissingVersionFails ==
    \A i \in 1..Len(reads) :
        (\E e \in DeclaredUnresolvable(Declared[reads[i]]) : e.form \in { "nover", "array" })
        => /\ i = Len(reads)
           /\ i \notin Returned
           /\ status = "panic"
           /\ manifest_dependencies(FileSystem(out), reads[i]) = Panicked

\* The extraction of a manifest failed that declares a valid entry and,
\* after it, an entry with no version string.
C5_Witness ==
    /\ status = "panic"
    /\ LET d == Declared[reads[Len(reads)]]
       IN  /\ d.readable /\ d.wellformed
           /\ DeclaredSurvivors(d.dependencies) # << >>
           /\ \E e \in DeclaredUnresolvable(d) : e.form \in { "nover", "array" }

(***************************************************************************)
(* C6: an entry N = "V" or N = { version = "V", ... } with a valid V       *)
(* yields exactly one Package{N, V} in the list of its table, V as         *)
(* written, and the list holds nothing else.                               *)
(***************************************************************************)
ExactlyThese(list, expected) ==
    /\ \A k \in 1..Len(expected) :
          Cardinality({ j \in 1..Len(list) : list[j] = expected[k] }) = 1
    /\ \A j \in 1..Len(list) : \E k \in 1..Len(expected) : list[j] = expected[k]

C6_ValidEntriesExtracted ==
    \A i \in Returned :
        /\ ExactlyThese(extracted[i].dependencies,
                        DeclaredSurvivors(Declared[reads[i]].dependencies))
        /\ ExactlyThese(extracted[i].dev_dependencies,
                        DeclaredSurvivors(Declared[reads[i]].dev_dependencies))

\* A manifest was extracted that declares a valid version in a table with
\* another key, beside an entry in string form.
C6_Witness ==
    \E i \in Returned :
        /\ \E e \in Range(DeclaredEntries(Declared[reads[i]].dependencies)) :
              e.form = "table" /\ VersionReqParse(e.version)
        /\ \E e \in Range(DeclaredEntries(Declared[reads[i]].dependencies)) :
              e.form = "string" /\ VersionReqParse(e.version)
        /\ Len(extracted[i].dependencies) = 2

(***************************************************************************)
(* C7: for every crate set, the empty one included, the manifest that      *)
(* make_project writes holds a [package] section with the placeholder name *)
(* and version = "0.0.0", then a [dependencies] section with exactly one   *)
(* line "<name>" = "<version>" per entry of the set and no other line.     *)
(***************************************************************************)
TrimLeft(l) == SubSeq(l, SkipWs(l, 1), Len(l))

\* The lines of a text that are not blank, without their indentation.
WrittenLines(text) ==
    SelectSeq([ i \in 1..Len(SplitLines(text)) |-> TrimLeft(SplitLines(text)[i]) ],
              LAMBDA l : l # << >>)

ExpectedDepLine(crate) == Quoted(crate[1]) \o << " ", "=", " " >> \o Quoted(crate[2])

C7_Document(ls, set) ==
    /\ Len(ls) = 4 + Cardinality(set)
    /\ ls[1] = << "[" >> \o S_package \o << "]" >>
    /\ ls[2] = S_name \o << " ", "=", " " >> \o Quoted(TEMP_PROJ_NAME)
    /\ ls[3] = S_version \o << " ", "=", " " >> \o Quoted(<< "0", ".", "0", ".", "0" >>)
    /\ ls[4] = << "[" >> \o S_dependencies \o << "]" >>
    /\ { ls[k] : k \in 5..Len(ls) } = { ExpectedDepLine(c) : c \in set }

C7_WrittenManifest ==
    steps # << >> /\ steps[1][2] =>
        C7_Document(WrittenLines(out[OutCargoToml].content), made[1])

\* A manifest was written for a set of three crates, two of one name.
C7_Witness ==
    /\ steps # << >> /\ steps[1][2]
    /\ Cardinality(made[1]) = 3
    /\ \E p \in made[1], q \in made[1] : p[1] = q[1] /\ p[2] # q[2]

(***************************************************************************)
(* C8: make_project writes the manifest, then creates the source           *)
(* directory, then writes the placeholder source file; the first call that *)
(* fails ends it with an error, no later call is made and nothing written  *)
(* before is removed; it returns Ok only when all three succeeded.         *)
(***************************************************************************)
CallOrder == << "write_manifest", "create_dir", "write_lib" >>

Succeeded(k) == k <= Len(steps) /\ steps[k][2]

C8_StepsInOrder ==
    /\ Len(steps) <= 3
    /\ \A k \in 1..Len(steps) : steps[k][1] = CallOrder[k]
    /\ \A k \in 1..(Len(steps) - 1) : steps[k][2]
    /\ Succeeded(1) => out[OutCargoToml].kind = "file" /\ out[OutCargoToml].content # << >>
    /\ Succeeded(2) => out[OutSrc].kind = "dir"
    /\ Succeeded(3) => out[OutLibRs].kind = "file"
    /\ Len(steps) < 1 => out[OutCargoToml].kind = "absent"
    /\ Len(steps) < 2 \/ ~Succeeded(2) => out[OutSrc].kind = "absent"
    /\ Len(steps) < 3 => out[OutLibRs].kind = "absent"
    /\ status = "error" <=> (steps # << >> /\ ~steps[Len(steps)][2])
    /\ status = "error" => pc = "exit"
    /\ status = "ok" <=> Succeeded(3)

\* The manifest was written and the creation of the directory failed.
C8_Witness ==
    /\ status = "error"
    /\ steps = << << "write_manifest", TRUE >>, << "create_dir", FALSE >> >>
    /\ out[OutCargoToml].kind = "file"
    /\ out[OutSrc].kind = "absent"

(***************************************************************************)
(* C9, as claimed: the two lists hold the surviving entries in the order   *)
(* in which the manifest declares them.                                    *)
(***************************************************************************)
C9_DeclarationOrder ==
    \A i \in Returned :
        /\ extracted[i].dependencies = DeclaredSurvivors(Declared[reads[i]].dependencies)
        /\ extracted[i].dev_dependencies
              = DeclaredSurvivors(Declared[reads[i]].dev_dependencies)

(***************************************************************************)
(* C9, amended: the two lists hold the surviving entries in ascending      *)
(* order of their names, the order in which the parsed table iterates.     *)
(***************************************************************************)
Ascending(list) ==
    \A j \in 1..(Len(list) - 1) : StrLess(list[j].name, list[j + 1].name)

C9_KeyOrder ==
    \A i \in Returned :
        /\ Ascending(extracted[i].dependencies)
        /\ Ascending(extracted[i].dev_dependencies)
        /\ Range(extracted[i].dependencies)
              = Range(DeclaredSurvivors(Declared[reads[i]].dependencies))
        /\ Range(extracted[i].dev_dependencies)
              = Range(DeclaredSurvivors(Declared[reads[i]].dev_dependencies))

\* A manifest was extracted whose two surviving entries are declared in
\* descending order of their names.
C9_Witness ==
    \E i \in Returned :
        /\ Len(DeclaredSurvivors(Declared[reads[i]].dependencies)) = 2
        /\ ~Ascending(DeclaredSurvivors(Declared[reads[i]].dependencies))
        /\ Len(extracted[i].dependencies) = 2

(***************************************************************************)
(* C10: the crate set is empty before the first manifest and only grows;   *)
(* manifest_dependencies is called once per argument, in argument order;   *)
(* make_project is called at most once, only after the last manifest was   *)
(* merged and with the final set, and exactly once in a run that ends      *)
(* without a failed extraction.                                            *)
(***************************************************************************)
C10_Lifecycle ==
    /\ reads = << >> => crates = {}
    /\ reads = SubSeq(manifests, 1, Len(reads))
    /\ Len(reads) \in { next - 1, next }
    /\ Len(made) <= 1
    /\ made # << >> =>
          /\ Len(extracted) = Len(manifests)
          /\ next = Len(manifests) + 1
          /\ made[1] = crates
    /\ pc # "loop" /\ status # "panic" => Len(made) = 1

C10_Grows ==
    /\ crates \subseteq crates'
    /\ made # << >> => crates' = crates /\ made' = made
    /\ Len(reads') <= Len(reads) + 1

C10_SetLifecycle == [] C10_Lifecycle /\ [][C10_Grows]_vars

\* A run over two manifests ended with success, and the second manifest
\* added a crate to those of the first.
C10_Witness ==
    /\ status = "ok"
    /\ Len(extracted) = 2
    /\ PairsOf(extracted[1].dependencies) # {}
    /\ PairsOf(extracted[1].dependencies) # crates
    /\ made = << crates >>

=============================================================================
